---------------------------- MODULE Spec2Model ----------------------------
(***************************************************************************)
(* Model of the issue-automation coordinator of BlogTube                   *)
(* (automation/coordination.js, class AgentCoordinator) and of the         *)
(* orchestration loop that drives it (claude-code-integration.js).         *)
(*                                                                         *)
(* The coordinator keeps all of its state in one JSON file.  Every method  *)
(* loads the file, mutates the loaded copy and writes the copy back; the   *)
(* variable disk is the content of that file.  Timestamps (queueTime,      *)
(* startTime, endTime, lastUpdate) and free-form result payloads are left  *)
(* out: no decision of the coordinator reads them.                         *)
(*                                                                         *)
(* Three further stores are modelled next to it: messageFile, the JSONL    *)
(* message log of communication.js; db, the User document and the blog     *)
(* count behind the credit check of the backend; and metrics, the          *)
(* counters of metrics.json written by the AutomationMonitor.              *)
(***************************************************************************)
EXTENDS Integers, Sequences, FiniteSets, TLC

VARIABLES disk, ret, calls, caller, messageFile, db, metrics

vars == <<disk, ret, calls, caller, messageFile, db, metrics>>

(***************************************************************************)
(* Bounds of the model.                                                    *)
(***************************************************************************)
MaxQueue == 4

MaxCalls == 6

IssueNumbers == {1, 2}

(***************************************************************************)
(* Vocabulary.                                                             *)
(***************************************************************************)
Roles == {"database", "backend", "frontend", "devops", "documentation"}

IssueTypes == {"bug", "enhancement", "feature", "documentation"}

Complexities == {"simple", "moderate", "complex"}

IssueDatas == [type : IssueTypes, complexity : Complexities]

Null == [null |-> TRUE]

NoAgent == "null"

NoCall == [op |-> "none"]

Range(s) == {s[i] : i \in 1..Len(s)}

NoDup(s) == \A i, j \in 1..Len(s) : i # j => s[i] # s[j]

SelectFirst(s, Test(_)) ==
  LET hits == {i \in 1..Len(s) : Test(s[i])}
  IN  IF hits = {} THEN 0 ELSE CHOOSE i \in hits : \A j \in hits : i <= j

RemoveAt(s, i) == SubSeq(s, 1, i - 1) \o SubSeq(s, i + 1, Len(s))

(***************************************************************************)
(* determineAgentOrder: the two tables local to the function.              *)
(***************************************************************************)
agentDependencies(agent) ==
  CASE agent = "database"      -> {}
    [] agent = "backend"       -> {"database"}
    [] agent = "frontend"      -> {"backend"}
    [] agent = "devops"        -> {"frontend", "backend", "database"}
    [] agent = "documentation" -> {"frontend", "backend", "database"}
    [] OTHER                   -> {}

agentPriorities(agent) ==
  CASE agent = "database"      -> 1
    [] agent = "backend"       -> 2
    [] agent = "frontend"      -> 3
    [] agent = "devops"        -> 4
    [] agent = "documentation" -> 5
    [] OTHER                   -> 0

(* Array.prototype.sort with the priority comparator: a stable sort. *)
RECURSIVE InsertByPriority(_, _)
InsertByPriority(sorted, a) ==
  IF sorted = <<>> THEN <<a>>
  ELSE IF agentPriorities(a) < agentPriorities(Head(sorted))
       THEN <<a>> \o sorted
       ELSE <<Head(sorted)>> \o InsertByPriority(Tail(sorted), a)

RECURSIVE SortByPriority(_)
SortByPriority(s) ==
  IF s = <<>> THEN <<>>
  ELSE InsertByPriority(SortByPriority(SubSeq(s, 1, Len(s) - 1)), s[Len(s)])

(* The while loop of determineAgentOrder: move the first remaining agent   *)
(* whose dependencies are in result, or are not required, to result.  With *)
(* the acyclic table above such an agent always exists.                    *)
RECURSIVE OrderLoop(_, _, _)
OrderLoop(result, remaining, requiredAgents) ==
  IF remaining = <<>> THEN result
  ELSE LET Satisfied(agent) ==
             \A dep \in agentDependencies(agent) :
               dep \in Range(result) \/ dep \notin Range(requiredAgents)
           i == SelectFirst(remaining, Satisfied)
       IN  OrderLoop(Append(result, remaining[i]), RemoveAt(remaining, i),
                     requiredAgents)

determineAgentOrder(requiredAgents, issueData) ==
  LET orderedAgents ==
        SortByPriority(SelectSeq(requiredAgents,
                                 LAMBDA a : agentPriorities(a) # 0))
  IN  IF issueData.type = "documentation"
      THEN <<"documentation">> \o
           SelectSeq(orderedAgents, LAMBDA a : a # "documentation")
      ELSE IF issueData.complexity = "simple" /\ Len(requiredAgents) = 1
           THEN orderedAgents
           ELSE OrderLoop(<<>>, orderedAgents, requiredAgents)

(***************************************************************************)
(* Inputs: the lists of distinct roles.                                    *)
(***************************************************************************)
RoleLists == {s \in UNION {[1..n -> Roles] : n \in 1..Cardinality(Roles)} : NoDup(s)}

(***************************************************************************)
(* The persisted coordination state and the initial file.                  *)
(***************************************************************************)
EmptyMap == [x \in {} |-> TRUE]

initialState ==
  [activeIssues       |-> EmptyMap,
   agentQueue         |-> <<>>,
   resourceLocks      |-> EmptyMap,
   agentCommunication |-> EmptyMap]

(* The per-issue message log <issueId>-messages.jsonl of                    *)
(* communication.js does not exist before the first sendMessage.            *)
(* The User document of the backend: subscription.creditsUsed and           *)
(* subscription.creditsLimit of the schema default (free plan), and the     *)
(* number of Blog documents of the user.                                    *)
MaxCredits == 2

initialUser == [creditsUsed |-> 0, creditsLimit |-> MaxCredits, blogs |-> 0]

(* initializeMetrics of AutomationMonitor: the counters of metrics.json     *)
(* that the orchestration run writes.                                       *)
initialMetrics ==
  [totalIssuesProcessed |-> 0,
   totalPRsCreated |-> 0,
   autoImplemented |-> 0,
   manualReview |-> 0]

InitCommon ==
  /\ disk = initialState
  /\ ret = NoCall
  /\ calls = 0
  /\ caller = [pc |-> "idle"]
  /\ messageFile = <<>>
  /\ db = initialUser
  /\ metrics = initialMetrics

(* fs.readFileSync + JSON.parse, and JSON.stringify + fs.writeFileSync: the *)
(* file is read whole and replaced whole.                                  *)
loadCoordinationState(d) == d

(* saveCoordinationState that keeps the issues and queue entries the file  *)
(* holds and the saved copy does not know.                                 *)
saveCoordinationState_KeepUnknown(d, state) ==
  [state EXCEPT
     !.activeIssues = state.activeIssues @@ d.activeIssues,
     !.agentQueue = state.agentQueue \o
                    SelectSeq(d.agentQueue,
                              LAMBDA item : item.issueId \notin DOMAIN state.activeIssues)]

saveCoordinationState(d, state) == state

issueIdOf(issueNumber) == <<"issue", issueNumber>>

NoProgress == [status |-> "none", retryAttempt |-> 0]

Has(map, key) == key \in DOMAIN map

Put(map, key, val) == (key :> val) @@ map

Delete(map, key) == [k \in DOMAIN map \ {key} |-> map[k]]

(* getAgentResources whose documentation role also works on the UI. *)
getAgentResources_SharedUi(agentType) ==
  CASE agentType = "database"      -> {"database-schema", "mongodb"}
    [] agentType = "backend"       -> {"backend-api", "express-server"}
    [] agentType = "frontend"      -> {"frontend-ui", "react-components"}
    [] agentType = "devops"        -> {"deployment-config", "ci-cd"}
    [] agentType = "documentation" -> {"documentation-files", "frontend-ui"}
    [] OTHER                       -> {}

getAgentResources(agentType) ==
  CASE agentType = "database"      -> {"database-schema", "mongodb"}
    [] agentType = "backend"       -> {"backend-api", "express-server"}
    [] agentType = "frontend"      -> {"frontend-ui", "react-components"}
    [] agentType = "devops"        -> {"deployment-config", "ci-cd"}
    [] agentType = "documentation" -> {"documentation-files"}
    [] OTHER                       -> {}

getAgentDependencies(agentType) ==
  CASE agentType = "database"      -> {}
    [] agentType = "backend"       -> {"database"}
    [] agentType = "frontend"      -> {"backend"}
    [] agentType = "devops"        -> {"database", "backend", "frontend"}
    [] agentType = "documentation" -> {}
    [] OTHER                       -> {}

(* canExecuteAgent without the test that a dependency is required at all.  *)
canExecuteAgent_AllDependencies(d, agentType, issue) ==
  LET state == loadCoordinationState(d)
  IN  /\ \A resource \in getAgentResources(agentType) :
           ~ (/\ Has(state.resourceLocks, resource)
              /\ state.resourceLocks[resource] # issue.issueNumber)
      /\ \A dep \in getAgentDependencies(agentType) :
           dep \in Range(issue.completedAgents)

(* canExecuteAgent without the test of the resource locks. *)
canExecuteAgent_NoLockTest(d, agentType, issue) ==
  \A dep \in getAgentDependencies(agentType) :
    ~ (/\ dep \in Range(issue.requiredAgents)
       /\ dep \notin Range(issue.completedAgents))

(* canExecuteAgent reads the lock table from the file and the issue from   *)
(* the caller's loaded copy.                                               *)
canExecuteAgent(d, agentType, issue) ==
  LET state == loadCoordinationState(d)
  IN  /\ \A resource \in getAgentResources(agentType) :
           ~ (/\ Has(state.resourceLocks, resource)
              /\ state.resourceLocks[resource] # issue.issueNumber)
      /\ \A dep \in getAgentDependencies(agentType) :
           ~ (/\ dep \in Range(issue.requiredAgents)
              /\ dep \notin Range(issue.completedAgents))

registerIssue(d, issueNumber, issueData, requiredAgents) ==
  LET state == loadCoordinationState(d)
      issueId == issueIdOf(issueNumber)
      issue == [issueNumber      |-> issueNumber,
                issueData        |-> issueData,
                requiredAgents   |-> requiredAgents,
                status           |-> "registered",
                agentProgress    |-> [r \in Roles |-> NoProgress],
                currentAgent     |-> NoAgent,
                completedAgents  |-> <<>>,
                failedAgents     |-> <<>>,
                communicationLog |-> <<>>]
      orderedAgents == determineAgentOrder(requiredAgents, issueData)
      entries == [i \in 1..Len(orderedAgents) |->
                    [issueId      |-> issueId,
                     agentType    |-> orderedAgents[i],
                     status       |-> "queued",
                     retryAttempt |-> 0]]
      state1 == [state EXCEPT
                   !.activeIssues = Put(state.activeIssues, issueId, issue),
                   !.agentQueue = state.agentQueue \o entries]
      d1 == saveCoordinationState(d, state1)
  IN  [disk |-> d1, saves |-> <<d1>>, value |-> issueId]

getNextAgent(d) ==
  LET state == loadCoordinationState(d)
      Ready(queueItem) ==
        /\ queueItem.status = "queued"
        /\ Has(state.activeIssues, queueItem.issueId)
        /\ canExecuteAgent(d, queueItem.agentType,
                           state.activeIssues[queueItem.issueId])
      i == SelectFirst(state.agentQueue, Ready)
  IN  IF i = 0 THEN [disk |-> d, saves |-> <<>>, value |-> Null]
      ELSE LET queueItem == state.agentQueue[i]
               issue == state.activeIssues[queueItem.issueId]
               issue1 == [issue EXCEPT
                            !.currentAgent = queueItem.agentType,
                            !.agentProgress[queueItem.agentType] =
                               [status |-> "executing", retryAttempt |-> 0]]
               state1 == [state EXCEPT
                            !.agentQueue[i].status = "executing",
                            !.activeIssues[queueItem.issueId] = issue1]
               d1 == saveCoordinationState(d, state1)
           IN  [disk  |-> d1,
                saves |-> <<d1>>,
                value |-> [issueId     |-> queueItem.issueId,
                           issueNumber |-> issue.issueNumber,
                           agentType   |-> queueItem.agentType]]

acquireResourceLocks(d, agentType, issueNumber) ==
  LET state == loadCoordinationState(d)
      locks == [r \in DOMAIN state.resourceLocks \cup getAgentResources(agentType) |->
                  IF r \in getAgentResources(agentType) THEN issueNumber
                  ELSE state.resourceLocks[r]]
  IN  saveCoordinationState(d, [state EXCEPT !.resourceLocks = locks])

releaseResourceLocks(d, agentType, issueNumber) ==
  LET state == loadCoordinationState(d)
      freed == {r \in getAgentResources(agentType) :
                  Has(state.resourceLocks, r) /\ state.resourceLocks[r] = issueNumber}
      locks == [r \in DOMAIN state.resourceLocks \ freed |-> state.resourceLocks[r]]
  IN  saveCoordinationState(d, [state EXCEPT !.resourceLocks = locks])

addAgentCommunication(d, issueId, fromAgent, toAgent, message, data) ==
  LET state == loadCoordinationState(d)
      old == IF Has(state.agentCommunication, issueId)
             THEN state.agentCommunication[issueId] ELSE <<>>
      entry == [fromAgent |-> fromAgent, toAgent |-> toAgent,
                message |-> message, data |-> data]
  IN  saveCoordinationState(d,
        [state EXCEPT !.agentCommunication =
                         Put(state.agentCommunication, issueId, Append(old, entry))])

getAgentCommunication(d, issueId) ==
  LET state == loadCoordinationState(d)
  IN  IF Has(state.agentCommunication, issueId)
      THEN state.agentCommunication[issueId] ELSE <<>>

(* recordAgentCompletion.  The loaded copy is mutated, releaseResourceLocks *)
(* loads and saves the file on its own, then the copy is saved, and only   *)
(* then getNextAgent runs (when entries of the issue remain).              *)
recordAgentCompletion(d, issueId, agentType, success) ==
  LET state == loadCoordinationState(d)
  IN  IF ~ Has(state.activeIssues, issueId)
      THEN [disk |-> d, saves |-> <<>>, thrown |-> TRUE,
            issueComplete |-> FALSE, nextAgent |-> Null]
      ELSE
        LET issue == state.activeIssues[issueId]
            issue1 == [issue EXCEPT
                         !.currentAgent = NoAgent,
                         !.agentProgress[agentType] =
                            [status |-> IF success THEN "completed" ELSE "failed",
                             retryAttempt |-> 0],
                         !.completedAgents =
                            IF success THEN Append(@, agentType) ELSE @,
                         !.failedAgents =
                            IF success THEN @ ELSE Append(@, agentType)]
            queue1 == SelectSeq(state.agentQueue,
                        LAMBDA item : ~ (item.issueId = issueId /\ item.agentType = agentType))
            d1 == releaseResourceLocks(d, agentType, issue.issueNumber)
            remainingAgents == SelectSeq(queue1, LAMBDA item : item.issueId = issueId)
            migrate == Len(remainingAgents) = 0 /\ Has(state.agentCommunication, issueId)
            issue2 == IF Len(remainingAgents) = 0
                      THEN [issue1 EXCEPT
                              !.status = "completed",
                              !.communicationLog =
                                 IF migrate THEN state.agentCommunication[issueId] ELSE @]
                      ELSE issue1
            state2 == [state EXCEPT
                         !.activeIssues[issueId] = issue2,
                         !.agentQueue = queue1,
                         !.agentCommunication =
                            IF migrate THEN Delete(@, issueId) ELSE @]
            d2 == saveCoordinationState(d1, state2)
            next == IF Len(remainingAgents) > 0 THEN getNextAgent(d2)
                    ELSE [disk |-> d2, saves |-> <<>>, value |-> Null]
        IN  [disk          |-> next.disk,
             saves         |-> <<d1, d2>> \o next.saves,
             thrown        |-> FALSE,
             issueComplete |-> Len(remainingAgents) = 0,
             nextAgent     |-> next.value]

(* Error messages are sequences of words, issue texts are sequences of      *)
(* characters; String.includes is containment of a run of symbols,          *)
(* toLowerCase maps each symbol.                                            *)
toLowerCase(word) ==
  CASE word = "Syntax"     -> "syntax"
    [] word = "Permission" -> "permission"
    [] word = "Simulated"  -> "simulated"
    [] word = "A" -> "a"
    [] word = "B" -> "b"
    [] word = "C" -> "c"
    [] word = "D" -> "d"
    [] word = "E" -> "e"
    [] word = "F" -> "f"
    [] word = "G" -> "g"
    [] word = "H" -> "h"
    [] word = "I" -> "i"
    [] word = "J" -> "j"
    [] word = "K" -> "k"
    [] word = "L" -> "l"
    [] word = "M" -> "m"
    [] word = "N" -> "n"
    [] word = "O" -> "o"
    [] word = "P" -> "p"
    [] word = "Q" -> "q"
    [] word = "R" -> "r"
    [] word = "S" -> "s"
    [] word = "T" -> "t"
    [] word = "U" -> "u"
    [] word = "V" -> "v"
    [] word = "W" -> "w"
    [] word = "X" -> "x"
    [] word = "Y" -> "y"
    [] word = "Z" -> "z"
    [] OTHER               -> word

includes(text, phrase) ==
  \E k \in 0..(Len(text) - Len(phrase)) :
    \A j \in 1..Len(phrase) : text[k + j] = phrase[j]

nonRetryableErrors ==
  {<<"syntax", "error">>, <<"invalid", "configuration">>,
   <<"authentication", "failed">>, <<"permission", "denied">>}

maxRetries(agentType) ==
  CASE agentType = "frontend"      -> 2
    [] agentType = "backend"       -> 2
    [] agentType = "database"      -> 1
    [] agentType = "devops"        -> 3
    [] agentType = "documentation" -> 2
    [] OTHER                       -> 1

currentRetries == 0

shouldRetryAgent(agentType, error) ==
  IF currentRetries >= maxRetries(agentType) THEN FALSE
  ELSE LET errorMessage == [i \in 1..Len(error) |-> toLowerCase(error[i])]
       IN  ~ \E nonRetryable \in nonRetryableErrors : includes(errorMessage, nonRetryable)

(* handleAgentFailure that queues the retry before it looks the issue up. *)
handleAgentFailure_LateCheck(d, issueId, agentType, error) ==
  LET state == loadCoordinationState(d)
  IN  IF ~ Has(state.activeIssues, issueId)
      THEN LET queued == [state EXCEPT
                            !.agentQueue = Append(@, [issueId      |-> issueId,
                                                      agentType    |-> agentType,
                                                      status       |-> "queued",
                                                      retryAttempt |-> 1])]
           IN  [disk |-> saveCoordinationState(d, queued), saves |-> <<queued>>,
                thrown |-> TRUE, value |-> FALSE]
      ELSE
        LET issue == state.activeIssues[issueId]
            shouldRetry == shouldRetryAgent(agentType, error)
            attempt == issue.agentProgress[agentType].retryAttempt + 1
            state1 == [state EXCEPT
                         !.agentQueue = Append(@, [issueId      |-> issueId,
                                                   agentType    |-> agentType,
                                                   status       |-> "queued",
                                                   retryAttempt |-> attempt]),
                         !.activeIssues[issueId].agentProgress[agentType] =
                            [status |-> "retry", retryAttempt |-> attempt]]
            inner == IF shouldRetry
                     THEN <<addAgentCommunication(d, issueId, "coordinator", agentType,
                                                  "Agent queued for retry", attempt)>>
                     ELSE recordAgentCompletion(d, issueId, agentType, FALSE).saves
            d1 == inner[Len(inner)]
            d2 == saveCoordinationState(d1, IF shouldRetry THEN state1 ELSE state)
        IN  [disk   |-> d2,
             saves  |-> Append(inner, d2),
             thrown |-> FALSE,
             value  |-> shouldRetry]

(* handleAgentFailure.  The copy loaded on entry is saved on exit, after   *)
(* addAgentCommunication or recordAgentCompletion have loaded and saved    *)
(* the file on their own.                                                  *)
handleAgentFailure(d, issueId, agentType, error) ==
  LET state == loadCoordinationState(d)
  IN  IF ~ Has(state.activeIssues, issueId)
      THEN [disk |-> d, saves |-> <<>>, thrown |-> TRUE, value |-> FALSE]
      ELSE
        LET issue == state.activeIssues[issueId]
            shouldRetry == shouldRetryAgent(agentType, error)
            attempt == issue.agentProgress[agentType].retryAttempt + 1
            state1 == [state EXCEPT
                         !.agentQueue = Append(@, [issueId      |-> issueId,
                                                   agentType    |-> agentType,
                                                   status       |-> "queued",
                                                   retryAttempt |-> attempt]),
                         !.activeIssues[issueId].agentProgress[agentType] =
                            [status |-> "retry", retryAttempt |-> attempt]]
            inner == IF shouldRetry
                     THEN <<addAgentCommunication(d, issueId, "coordinator", agentType,
                                                  "Agent queued for retry", attempt)>>
                     ELSE recordAgentCompletion(d, issueId, agentType, FALSE).saves
            d1 == inner[Len(inner)]
            d2 == saveCoordinationState(d1, IF shouldRetry THEN state1 ELSE state)
        IN  [disk   |-> d2,
             saves  |-> Append(inner, d2),
             thrown |-> FALSE,
             value  |-> shouldRetry]

(***************************************************************************)
(* Specification Spec: one process calling the coordinator's methods.      *)
(* JavaScript runs each method to completion, so each call is one step.    *)
(* As in the orchestration loop, a completion or a failure is reported for *)
(* a role that getNextAgent handed out (its entry is executing), and an    *)
(* issue number is registered when the queue holds no entry of it.         *)
(***************************************************************************)
(* Behaviours of Spec are sequences of at most MaxCalls calls. *)
Counted ==
  /\ calls < MaxCalls
  /\ calls' = calls + 1
  /\ UNCHANGED <<caller, messageFile, db, metrics>>

classifierOrder == <<"frontend", "backend", "database", "devops", "documentation">>

(* The lists determineRequiredAgents can return: non-empty, in test order. *)
AgentLists ==
  {SelectSeq(classifierOrder, LAMBDA a : a \in S) : S \in SUBSET Roles \ {{}}}

ErrorMessages ==
  {<<"Simulated", "failure">>,
   <<"Syntax", "error", "in", "configuration">>,
   <<"permission", "denied">>}

(* The status of the issue in each content the call wrote to the file. *)
StatusesIn(saves, issueId) ==
  [k \in 1..Len(saves) |-> saves[k].activeIssues[issueId].status]

HasEntry(d, issueId, agentType) ==
  \E i \in 1..Len(d.agentQueue) :
    d.agentQueue[i].issueId = issueId /\ d.agentQueue[i].agentType = agentType

IsExecuting(d, issueId, agentType) ==
  \E i \in 1..Len(d.agentQueue) :
    /\ d.agentQueue[i].issueId = issueId
    /\ d.agentQueue[i].agentType = agentType
    /\ d.agentQueue[i].status = "executing"

(* The analyses registered in this specification. *)
Analyses ==
  {[issueData |-> [type |-> "feature", complexity |-> "moderate"],
    agents |-> <<"frontend", "backend">>],
   [issueData |-> [type |-> "feature", complexity |-> "moderate"],
    agents |-> <<"frontend", "backend", "documentation">>],
   [issueData |-> [type |-> "feature", complexity |-> "complex"],
    agents |-> <<"database">>],
   [issueData |-> [type |-> "bug", complexity |-> "simple"],
    agents |-> <<"frontend">>],
   [issueData |-> [type |-> "documentation", complexity |-> "simple"],
    agents |-> <<"frontend">>]}

RegisterIssue ==
  \E issueNumber \in IssueNumbers, analysis \in Analyses :
    LET r == registerIssue(disk, issueNumber, analysis.issueData, analysis.agents)
    IN  /\ ~ \E agentType \in Roles : HasEntry(disk, issueIdOf(issueNumber), agentType)
        /\ Len(r.disk.agentQueue) <= MaxQueue
        /\ disk' = r.disk
        /\ ret' = [op |-> "registerIssue", issueNumber |-> issueNumber, value |-> r.value]
        /\ Counted

GetNextAgent ==
  LET r == getNextAgent(disk)
  IN  /\ disk' = r.disk
      /\ ret' = [op |-> "getNextAgent", value |-> r.value]
      /\ Counted

AcquireResourceLocks ==
  \E issueId \in DOMAIN disk.activeIssues, agentType \in Roles :
    /\ IsExecuting(disk, issueId, agentType)
    /\ disk' = acquireResourceLocks(disk, agentType, disk.activeIssues[issueId].issueNumber)
    /\ ret' = [op |-> "acquireResourceLocks", issueId |-> issueId, agentType |-> agentType]
    /\ Counted

ReleaseResourceLocks ==
  \E issueId \in DOMAIN disk.activeIssues, agentType \in Roles :
    /\ \E r \in getAgentResources(agentType) :
         /\ Has(disk.resourceLocks, r)
         /\ disk.resourceLocks[r] = disk.activeIssues[issueId].issueNumber
    /\ disk' = releaseResourceLocks(disk, agentType, disk.activeIssues[issueId].issueNumber)
    /\ ret' = [op |-> "releaseResourceLocks", issueId |-> issueId, agentType |-> agentType]
    /\ Counted

RecordAgentCompletion ==
  \E issueId \in DOMAIN disk.activeIssues, agentType \in Roles, success \in BOOLEAN :
    LET r == recordAgentCompletion(disk, issueId, agentType, success)
    IN  /\ IsExecuting(disk, issueId, agentType)
        /\ disk' = r.disk
        /\ ret' = [op |-> "recordAgentCompletion", issueId |-> issueId,
                   agentType |-> agentType, success |-> success,
                   issueComplete |-> r.issueComplete, nextAgent |-> r.nextAgent,
                   statuses |-> StatusesIn(r.saves, issueId)]
        /\ Counted

HandleAgentFailure ==
  \E issueId \in DOMAIN disk.activeIssues, agentType \in Roles, error \in ErrorMessages :
    LET r == handleAgentFailure(disk, issueId, agentType, error)
    IN  /\ IsExecuting(disk, issueId, agentType)
        /\ Len(r.disk.agentQueue) <= MaxQueue
        /\ disk' = r.disk
        /\ ret' = [op |-> "handleAgentFailure", issueId |-> issueId,
                   agentType |-> agentType, error |-> error, value |-> r.value,
                   statuses |-> StatusesIn(r.saves, issueId)]
        /\ Counted

Next ==
  \/ RegisterIssue
  \/ GetNextAgent
  \/ AcquireResourceLocks
  \/ ReleaseResourceLocks
  \/ RecordAgentCompletion
  \/ HandleAgentFailure

Spec == InitCommon /\ [][Next]_vars

(***************************************************************************)
(* Specification SpecDrain: a caller that registers one issue in a fresh   *)
(* coordinator and completes its roles successfully, one after the other.  *)
(* A "poll" caller calls getNextAgent before every completion; a "chain"   *)
(* caller calls getNextAgent once and then follows the nextAgent that      *)
(* recordAgentCompletion returns, as testMultiAgentCoordination does.      *)
(***************************************************************************)
DrainModes == {"poll", "chain"}

DrainRegister ==
  /\ caller.pc = "idle"
  /\ \E issueData \in IssueDatas, requiredAgents \in AgentLists, mode \in DrainModes :
       LET r == registerIssue(disk, 1, issueData, requiredAgents)
       IN  /\ disk' = r.disk
           /\ ret' = [op |-> "registerIssue", issueNumber |-> 1, value |-> r.value]
           /\ caller' = [pc |-> "get", mode |-> mode, issueId |-> r.value,
                         n |-> Len(r.disk.agentQueue), k |-> 0, agent |-> Null]
  /\ UNCHANGED <<calls, messageFile, db, metrics>>

DrainGetNext ==
  /\ caller.pc = "get"
  /\ LET r == getNextAgent(disk)
     IN  /\ disk' = r.disk
         /\ ret' = [op |-> "getNextAgent", value |-> r.value]
         /\ caller' = [caller EXCEPT
                         !.agent = r.value,
                         !.pc = IF r.value = Null THEN "gotNull" ELSE "record"]
  /\ UNCHANGED <<calls, messageFile, db, metrics>>

DrainRecord ==
  /\ caller.pc = "record"
  /\ LET r == recordAgentCompletion(disk, caller.issueId, caller.agent.agentType, TRUE)
         k1 == caller.k + 1
     IN  /\ disk' = r.disk
         /\ ret' = [op |-> "recordAgentCompletion", issueId |-> caller.issueId,
                    agentType |-> caller.agent.agentType, success |-> TRUE,
                    issueComplete |-> r.issueComplete, nextAgent |-> r.nextAgent,
                   statuses |-> StatusesIn(r.saves, caller.issueId)]
         /\ caller' = [caller EXCEPT
                         !.k = k1,
                         !.agent = IF caller.mode = "chain" THEN r.nextAgent ELSE Null,
                         !.pc = IF k1 = caller.n THEN "done"
                                ELSE IF caller.mode = "poll" THEN "get"
                                ELSE IF r.nextAgent = Null THEN "gotNull"
                                ELSE "record"]
  /\ UNCHANGED <<calls, messageFile, db, metrics>>

NextDrain == DrainRegister \/ DrainGetNext \/ DrainRecord

SpecDrain == InitCommon /\ [][NextDrain]_vars

(***************************************************************************)
(* Specification SpecRun: ClaudeCodeIntegration.orchestrate from the       *)
(* registration on, one run per issue number, one run at a time.  An agent *)
(* execution reports success, reports failure, or an exception reaches the *)
(* catch block of the loop.                                                *)
(***************************************************************************)
MaxExecutions == 4

RunRegister ==
  /\ caller.pc \in {"idle", "done"}
  /\ \E issueNumber \in IssueNumbers, analysis \in Analyses :
       LET r == registerIssue(disk, issueNumber, analysis.issueData, analysis.agents)
           g == getNextAgent(r.disk)
       IN  /\ ~ Has(disk.activeIssues, issueIdOf(issueNumber))
           /\ disk' = g.disk
           /\ ret' = [op |-> "getNextAgent", value |-> g.value]
           /\ caller' = [pc |-> "loop", issueNumber |-> issueNumber,
                         issueId |-> r.value, nextAgent |-> g.value,
                         executions |-> 0]
  /\ UNCHANGED <<calls, messageFile, db, metrics>>

RunAcquire ==
  /\ caller.pc = "loop"
  /\ caller.nextAgent # Null
  /\ caller.executions < MaxExecutions
  /\ disk' = acquireResourceLocks(disk, caller.nextAgent.agentType, caller.issueNumber)
  /\ ret' = [op |-> "acquireResourceLocks", issueId |-> caller.issueId,
             agentType |-> caller.nextAgent.agentType]
  /\ caller' = [caller EXCEPT !.pc = "execute", !.executions = @ + 1]
  /\ UNCHANGED <<calls, messageFile, db, metrics>>

RunResult ==
  /\ caller.pc = "execute"
  /\ \E success \in BOOLEAN :
       LET r == recordAgentCompletion(disk, caller.issueId,
                                      caller.nextAgent.agentType, success)
       IN  /\ disk' = r.disk
           /\ ret' = [op |-> "recordAgentCompletion", issueId |-> caller.issueId,
                      agentType |-> caller.nextAgent.agentType, success |-> success,
                      issueComplete |-> r.issueComplete, nextAgent |-> r.nextAgent,
                   statuses |-> StatusesIn(r.saves, caller.issueId)]
           /\ caller' = [caller EXCEPT !.pc = "loop", !.nextAgent = r.nextAgent]
  /\ UNCHANGED <<calls, messageFile, db, metrics>>

RunCatch ==
  /\ caller.pc = "execute"
  /\ \E error \in ErrorMessages :
       LET r == handleAgentFailure(disk, caller.issueId,
                                   caller.nextAgent.agentType, error)
           g == getNextAgent(r.disk)
       IN  /\ Len(r.disk.agentQueue) <= MaxQueue
           /\ disk' = g.disk
           /\ ret' = [op |-> "handleAgentFailure", issueId |-> caller.issueId,
                      agentType |-> caller.nextAgent.agentType, error |-> error,
                      value |-> r.value,
                      statuses |-> StatusesIn(r.saves, caller.issueId)]
           /\ caller' = [caller EXCEPT !.pc = "loop", !.nextAgent = g.value]
  /\ UNCHANGED <<calls, messageFile, db, metrics>>

RunExit ==
  /\ caller.pc = "loop"
  /\ caller.nextAgent = Null
  /\ caller' = [caller EXCEPT !.pc = "done"]
  /\ UNCHANGED <<disk, ret, calls, messageFile, db, metrics>>

NextRun == RunRegister \/ RunAcquire \/ RunResult \/ RunCatch \/ RunExit

SpecRun == InitCommon /\ [][NextRun]_vars

(***************************************************************************)
(* Specification SpecOrder: determineAgentOrder applied to every list of   *)
(* distinct roles and every issue type and complexity.                     *)
(***************************************************************************)
DetermineAgentOrderCall ==
  /\ ret = NoCall
  /\ \E requiredAgents \in RoleLists, issueData \in IssueDatas :
       ret' = [op             |-> "determineAgentOrder",
               requiredAgents |-> requiredAgents,
               issueData      |-> issueData,
               value          |-> determineAgentOrder(requiredAgents, issueData)]
  /\ UNCHANGED <<disk, calls, caller, messageFile, db, metrics>>

NextOrder == DetermineAgentOrderCall

SpecOrder == InitCommon /\ [][NextOrder]_vars

(***************************************************************************)
(* The issue classifier of ClaudeCodeIntegration.  A text is the sequence  *)
(* of its characters.                                                      *)
(***************************************************************************)
lowerCased(text) == [i \in 1..Len(text) |-> toLowerCase(text[i])]

classifyIssueType(title, body, labels) ==
  IF <<"b", "u", "g">> \in labels
     \/ includes(title, <<"f", "i", "x">>) \/ includes(title, <<"e", "r", "r", "o", "r">>)
  THEN "bug"
  ELSE IF <<"e", "n", "h", "a", "n", "c", "e", "m", "e", "n", "t">> \in labels
          \/ includes(title, <<"i", "m", "p", "r", "o", "v", "e">>)
          \/ includes(title, <<"o", "p", "t", "i", "m", "i", "z", "e">>)
  THEN "enhancement"
  ELSE IF <<"f", "e", "a", "t", "u", "r", "e">> \in labels
          \/ includes(title, <<"a", "d", "d">>)
          \/ includes(title, <<"i", "m", "p", "l", "e", "m", "e", "n", "t">>)
  THEN "feature"
  ELSE IF <<"d", "o", "c", "u", "m", "e", "n", "t", "a", "t", "i", "o", "n">> \in labels
          \/ includes(title, <<"d", "o", "c">>) \/ includes(title, <<"r", "e", "a", "d", "m", "e">>)
  THEN "documentation"
  ELSE "feature"

simpleKeywords ==
  {<<"t", "y", "p", "o">>,
   <<"c", "o", "l", "o", "r">>,
   <<"t", "e", "x", "t">>,
   <<"b", "u", "t", "t", "o", "n">>,
   <<"s", "t", "y", "l", "e">>,
   <<"c", "s", "s">>,
   <<"r", "e", "a", "d", "m", "e">>}

complexKeywords ==
  {<<"a", "r", "c", "h", "i", "t", "e", "c", "t", "u", "r", "e">>,
   <<"r", "e", "f", "a", "c", "t", "o", "r">>,
   <<"m", "i", "g", "r", "a", "t", "i", "o", "n">>,
   <<"a", "u", "t", "h", "e", "n", "t", "i", "c", "a", "t", "i", "o", "n">>,
   <<"d", "a", "t", "a", "b", "a", "s", "e">>}

highRiskKeywords ==
  {<<"b", "r", "e", "a", "k", "i", "n", "g">>,
   <<"m", "i", "g", "r", "a", "t", "i", "o", "n">>,
   <<"s", "e", "c", "u", "r", "i", "t", "y">>,
   <<"a", "u", "t", "h", "e", "n", "t", "i", "c", "a", "t", "i", "o", "n">>,
   <<"d", "a", "t", "a", "b", "a", "s", "e">>}

lowRiskKeywords ==
  {<<"d", "o", "c", "u", "m", "e", "n", "t", "a", "t", "i", "o", "n">>,
   <<"r", "e", "a", "d", "m", "e">>,
   <<"t", "y", "p", "o">>,
   <<"c", "o", "l", "o", "r">>,
   <<"c", "s", "s">>,
   <<"s", "t", "y", "l", "e">>}

(* keywords.some(keyword => title.includes(keyword) || body.includes(keyword)) *)
SomeKeyword(keywords, title, body) ==
  \E keyword \in keywords : includes(title, keyword) \/ includes(body, keyword)

(* assessComplexity that tests the complex keywords first. *)
assessComplexity_ComplexFirst(title, body) ==
  IF SomeKeyword(complexKeywords, title, body) THEN "complex"
  ELSE IF SomeKeyword(simpleKeywords, title, body) THEN "simple"
  ELSE "moderate"

assessComplexity(title, body) ==
  IF SomeKeyword(simpleKeywords, title, body) THEN "simple"
  ELSE IF SomeKeyword(complexKeywords, title, body) THEN "complex"
  ELSE "moderate"

assessRisk(title, body) ==
  IF SomeKeyword(highRiskKeywords, title, body) THEN "high"
  ELSE IF SomeKeyword(lowRiskKeywords, title, body) THEN "low"
  ELSE "medium"

determineRequiredAgents(title) ==
  LET frontend == IF includes(title, <<"u", "i">>) \/ includes(title, <<"c", "o", "m", "p", "o", "n", "e", "n", "t">>)
                     \/ includes(title, <<"f", "r", "o", "n", "t", "e", "n", "d">>)
                  THEN <<"frontend">> ELSE <<>>
      backend == IF includes(title, <<"a", "p", "i">>) \/ includes(title, <<"b", "a", "c", "k", "e", "n", "d">>)
                    \/ includes(title, <<"s", "e", "r", "v", "e", "r">>)
                 THEN <<"backend">> ELSE <<>>
      database == IF includes(title, <<"d", "a", "t", "a", "b", "a", "s", "e">>)
                     \/ includes(title, <<"s", "c", "h", "e", "m", "a">>)
                     \/ includes(title, <<"m", "o", "d", "e", "l">>)
                  THEN <<"database">> ELSE <<>>
      devops == IF includes(title, <<"d", "e", "p", "l", "o", "y">>) \/ includes(title, <<"c", "i">>)
                   \/ includes(title, <<"p", "e", "r", "f", "o", "r", "m", "a", "n", "c", "e">>)
                THEN <<"devops">> ELSE <<>>
      documentation == IF includes(title, <<"d", "o", "c">>) \/ includes(title, <<"r", "e", "a", "d", "m", "e">>)
                          \/ includes(title, <<"g", "u", "i", "d", "e">>)
                       THEN <<"documentation">> ELSE <<>>
      agents == frontend \o backend \o database \o devops \o documentation
  IN  IF Len(agents) > 0 THEN agents ELSE <<"frontend">>

(* autoImplement that lets every moderate issue through. *)
autoImplementOf_AnyModerate(complexity, risk) ==
  \/ complexity = "simple" /\ risk = "low"
  \/ complexity = "moderate"

autoImplementOf(complexity, risk) ==
  \/ complexity = "simple" /\ risk = "low"
  \/ complexity = "moderate" /\ risk = "low"

analyzeIssue(issue) ==
  LET title == lowerCased(issue.issueTitle)
      body == lowerCased(issue.issueBody)
      labels == {lowerCased(name) : name \in issue.issueLabels}
      complexity == assessComplexity(title, body)
      risk == assessRisk(title, body)
  IN  [type          |-> classifyIssueType(title, body, labels),
       complexity    |-> complexity,
       risk          |-> risk,
       agents        |-> determineRequiredAgents(title),
       autoImplement |-> autoImplementOf(complexity, risk)]

(***************************************************************************)
(* The issues: titles of up to MaxTitleWords words separated by blanks, a  *)
(* body that is empty or one word, at most one label, and the issues of    *)
(* the test suite.                                                         *)
(***************************************************************************)
MaxTitleWords == 2

TitleWords ==
  {<<"F", "i", "x">>,
   <<"A", "d", "d">>,
   <<"R", "E", "A", "D", "M", "E">>,
   <<"c", "s", "s">>,
   <<"r", "e", "f", "a", "c", "t", "o", "r">>,
   <<"d", "a", "t", "a", "b", "a", "s", "e">>,
   <<"p", "a", "y", "m", "e", "n", "t">>,
   <<"s", "c", "h", "e", "m", "a">>,
   <<"a", "p", "i">>,
   <<"g", "u", "i", "d", "e">>,
   <<"d", "o", "c", "u", "m", "e", "n", "t", "a", "t", "i", "o", "n">>}

BodyWords ==
  {<<"t", "y", "p", "o">>,
   <<"m", "i", "g", "r", "a", "t", "i", "o", "n">>,
   <<"p", "a", "y", "m", "e", "n", "t">>}

LabelNames ==
  {<<"B", "u", "g">>,
   <<"e", "n", "h", "a", "n", "c", "e", "m", "e", "n", "t">>,
   <<"f", "e", "a", "t", "u", "r", "e">>,
   <<"d", "o", "c", "u", "m", "e", "n", "t", "a", "t", "i", "o", "n">>}

RECURSIVE Sentence(_)
Sentence(words) ==
  IF words = <<>> THEN <<>>
  ELSE IF Len(words) = 1 THEN words[1]
  ELSE words[1] \o <<" ">> \o Sentence(Tail(words))

Titles == {Sentence(ws) : ws \in UNION {[1..k -> TitleWords] : k \in 1..MaxTitleWords}}

Bodies == {<<>>} \cup BodyWords

LabelSets == {{}} \cup {{name} : name \in LabelNames}

TestIssues ==
  {[issueTitle  |-> Sentence(<<<<"F", "i", "x">>, <<"b", "u", "t", "t", "o", "n">>, <<"c", "o", "l", "o", "r">>, <<"i", "n">>, <<"d", "a", "s", "h", "b", "o", "a", "r", "d">>>>),
    issueBody   |-> Sentence(<<<<"T", "h", "e">>, <<"s", "u", "b", "m", "i", "t">>, <<"b", "u", "t", "t", "o", "n">>, <<"h", "a", "s">>, <<"w", "r", "o", "n", "g">>, <<"c", "o", "l", "o", "r">>>>),
    issueLabels |-> {<<"b", "u", "g">>}],
   [issueTitle  |-> Sentence(<<<<"I", "m", "p", "l", "e", "m", "e", "n", "t">>, <<"u", "s", "e", "r">>, <<"a", "u", "t", "h", "e", "n", "t", "i", "c", "a", "t", "i", "o", "n">>, <<"s", "y", "s", "t", "e", "m">>>>),
    issueBody   |-> Sentence(<<<<"A", "d", "d">>, <<"c", "o", "m", "p", "l", "e", "t", "e">>, <<"a", "u", "t", "h", "e", "n", "t", "i", "c", "a", "t", "i", "o", "n">>, <<"w", "i", "t", "h">>, <<"O", "A", "u", "t", "h">>>>),
    issueLabels |-> {<<"f", "e", "a", "t", "u", "r", "e">>}],
   [issueTitle  |-> Sentence(<<<<"U", "p", "d", "a", "t", "e">>, <<"R", "E", "A", "D", "M", "E">>, <<"d", "o", "c", "u", "m", "e", "n", "t", "a", "t", "i", "o", "n">>>>),
    issueBody   |-> Sentence(<<<<"A", "d", "d">>, <<"s", "e", "t", "u", "p">>, <<"i", "n", "s", "t", "r", "u", "c", "t", "i", "o", "n", "s">>, <<"a", "n", "d">>, <<"A", "P", "I">>, <<"d", "o", "c", "s">>>>),
    issueLabels |-> {<<"d", "o", "c", "u", "m", "e", "n", "t", "a", "t", "i", "o", "n">>}],
   [issueTitle  |-> Sentence(<<<<"A", "d", "d">>, <<"t", "e", "s", "t">>, <<"f", "e", "a", "t", "u", "r", "e">>>>),
    issueBody   |-> Sentence(<<<<"S", "i", "m", "p", "l", "e">>, <<"t", "e", "s", "t">>, <<"f", "e", "a", "t", "u", "r", "e">>, <<"i", "m", "p", "l", "e", "m", "e", "n", "t", "a", "t", "i", "o", "n">>>>),
    issueLabels |-> {<<"f", "e", "a", "t", "u", "r", "e">>}]}

Issues ==
  TestIssues \cup
  {[issueTitle |-> title, issueBody |-> body, issueLabels |-> labels] :
     title \in Titles, body \in Bodies, labels \in LabelSets}

(***************************************************************************)
(* Specification SpecAnalyze: analyzeIssue applied to every issue.         *)
(***************************************************************************)
AnalyzeIssue ==
  /\ ret = NoCall
  /\ \E issue \in Issues :
       ret' = [op |-> "analyzeIssue", issue |-> issue, value |-> analyzeIssue(issue)]
  /\ UNCHANGED <<disk, calls, caller, messageFile, db, metrics>>

NextAnalyze == AnalyzeIssue

SpecAnalyze == InitCommon /\ [][NextAnalyze]_vars

(***************************************************************************)
(* The classifier of IssueOrchestrator (orchestrate-issue.js), which the   *)
(* local commands 'analyze' and 'simulate' run.  Its simpleKeywords and    *)
(* lowRiskKeywords are the lists of ClaudeCodeIntegration, letter for      *)
(* letter; the other lists and tests are its own.                          *)
(***************************************************************************)
IssueOrchestrator_classifyIssueType(title, body, labels) ==
  IF <<"b", "u", "g">> \in labels
     \/ includes(title, <<"f", "i", "x">>) \/ includes(title, <<"e", "r", "r", "o", "r">>)
  THEN "bug"
  ELSE IF <<"e", "n", "h", "a", "n", "c", "e", "m", "e", "n", "t">> \in labels
          \/ includes(title, <<"i", "m", "p", "r", "o", "v", "e">>)
          \/ includes(title, <<"o", "p", "t", "i", "m", "i", "z", "e">>)
  THEN "enhancement"
  ELSE IF <<"f", "e", "a", "t", "u", "r", "e">> \in labels
          \/ includes(title, <<"a", "d", "d">>)
          \/ includes(title, <<"i", "m", "p", "l", "e", "m", "e", "n", "t">>)
  THEN "feature"
  ELSE IF <<"d", "o", "c", "u", "m", "e", "n", "t", "a", "t", "i", "o", "n">> \in labels
          \/ includes(title, <<"d", "o", "c">>) \/ includes(title, <<"r", "e", "a", "d", "m", "e">>)
  THEN "documentation"
  ELSE IF includes(title, <<"p", "e", "r", "f", "o", "r", "m", "a", "n", "c", "e">>)
          \/ includes(title, <<"s", "l", "o", "w">>)
          \/ includes(title, <<"o", "p", "t", "i", "m", "i", "z", "e">>)
  THEN "performance"
  ELSE IF includes(title, <<"s", "e", "c", "u", "r", "i", "t", "y">>)
          \/ includes(title, <<"v", "u", "l", "n", "e", "r", "a", "b", "i", "l", "i", "t", "y">>)
  THEN "security"
  ELSE "feature"

IssueOrchestrator_complexKeywords ==
  {<<"a", "r", "c", "h", "i", "t", "e", "c", "t", "u", "r", "e">>,
   <<"r", "e", "f", "a", "c", "t", "o", "r">>,
   <<"m", "i", "g", "r", "a", "t", "i", "o", "n">>,
   <<"a", "u", "t", "h", "e", "n", "t", "i", "c", "a", "t", "i", "o", "n">>,
   <<"d", "a", "t", "a", "b", "a", "s", "e">>,
   <<"a", "p", "i">>}

IssueOrchestrator_highRiskKeywords ==
  {<<"b", "r", "e", "a", "k", "i", "n", "g">>,
   <<"m", "i", "g", "r", "a", "t", "i", "o", "n">>,
   <<"s", "e", "c", "u", "r", "i", "t", "y">>,
   <<"a", "u", "t", "h", "e", "n", "t", "i", "c", "a", "t", "i", "o", "n">>,
   <<"d", "a", "t", "a", "b", "a", "s", "e">>,
   <<"p", "a", "y", "m", "e", "n", "t">>}

IssueOrchestrator_assessComplexity(title, body) ==
  IF SomeKeyword(simpleKeywords, title, body) THEN "simple"
  ELSE IF SomeKeyword(IssueOrchestrator_complexKeywords, title, body) THEN "complex"
  ELSE "moderate"

IssueOrchestrator_assessRisk(title, body) ==
  IF SomeKeyword(IssueOrchestrator_highRiskKeywords, title, body) THEN "high"
  ELSE IF SomeKeyword(lowRiskKeywords, title, body) THEN "low"
  ELSE "medium"

IssueOrchestrator_determineRequiredAgents(title, body) ==
  LET frontend == IF includes(title, <<"u", "i">>) \/ includes(title, <<"c", "o", "m", "p", "o", "n", "e", "n", "t">>)
                     \/ includes(title, <<"p", "a", "g", "e">>) \/ includes(title, <<"f", "r", "o", "n", "t", "e", "n", "d">>)
                     \/ includes(body, <<"r", "e", "a", "c", "t">>) \/ includes(body, <<"n", "e", "x", "t", ".", "j", "s">>)
                  THEN <<"frontend">> ELSE <<>>
      backend == IF includes(title, <<"a", "p", "i">>) \/ includes(title, <<"b", "a", "c", "k", "e", "n", "d">>)
                    \/ includes(title, <<"s", "e", "r", "v", "e", "r">>) \/ includes(title, <<"e", "n", "d", "p", "o", "i", "n", "t">>)
                    \/ includes(body, <<"e", "x", "p", "r", "e", "s", "s">>) \/ includes(body, <<"r", "o", "u", "t", "e">>)
                 THEN <<"backend">> ELSE <<>>
      database == IF includes(title, <<"d", "a", "t", "a", "b", "a", "s", "e">>) \/ includes(title, <<"s", "c", "h", "e", "m", "a">>)
                     \/ includes(title, <<"m", "o", "d", "e", "l">>) \/ includes(title, <<"m", "o", "n", "g", "o">>)
                     \/ includes(body, <<"c", "o", "l", "l", "e", "c", "t", "i", "o", "n">>) \/ includes(body, <<"q", "u", "e", "r", "y">>)
                  THEN <<"database">> ELSE <<>>
      devops == IF includes(title, <<"d", "e", "p", "l", "o", "y">>) \/ includes(title, <<"c", "i">>)
                   \/ includes(title, <<"b", "u", "i", "l", "d">>) \/ includes(title, <<"p", "e", "r", "f", "o", "r", "m", "a", "n", "c", "e">>)
                   \/ includes(body, <<"d", "o", "c", "k", "e", "r">>) \/ includes(body, <<"g", "i", "t", "h", "u", "b", " ", "a", "c", "t", "i", "o", "n", "s">>)
                THEN <<"devops">> ELSE <<>>
      documentation == IF includes(title, <<"d", "o", "c">>) \/ includes(title, <<"r", "e", "a", "d", "m", "e">>)
                          \/ includes(title, <<"g", "u", "i", "d", "e">>) \/ includes(title, <<"d", "o", "c", "u", "m", "e", "n", "t", "a", "t", "i", "o", "n">>)
                          \/ includes(body, <<"t", "u", "t", "o", "r", "i", "a", "l">>)
                       THEN <<"documentation">> ELSE <<>>
      agents == frontend \o backend \o database \o devops \o documentation
  IN  IF Len(agents) = 0 THEN <<"frontend">> ELSE agents

IssueOrchestrator_analyzeIssue(issue) ==
  LET title == lowerCased(issue.issueTitle)
      body == lowerCased(issue.issueBody)
      labels == {lowerCased(name) : name \in issue.issueLabels}
      complexity == IssueOrchestrator_assessComplexity(title, body)
      risk == IssueOrchestrator_assessRisk(title, body)
  IN  [type          |-> IssueOrchestrator_classifyIssueType(title, body, labels),
       complexity    |-> complexity,
       risk          |-> risk,
       agents        |-> IssueOrchestrator_determineRequiredAgents(title, body),
       autoImplement |-> \/ complexity = "simple" /\ risk = "low"
                         \/ complexity = "moderate" /\ risk = "low"]

(***************************************************************************)
(* Specification SpecPredict: the local 'analyze' command and the          *)
(* automation classify the same issue.                                     *)
(***************************************************************************)
AnalyzeLocally ==
  /\ ret = NoCall
  /\ \E issue \in Issues :
       ret' = [op |-> "analyze", issue |-> issue,
               local |-> IssueOrchestrator_analyzeIssue(issue),
               automation |-> analyzeIssue(issue)]
  /\ UNCHANGED <<disk, calls, caller, messageFile, db, metrics>>

NextPredict == AnalyzeLocally

SpecPredict == InitCommon /\ [][NextPredict]_vars

(***************************************************************************)
(* Specification SpecOrchestrate: one process running                      *)
(* ClaudeCodeIntegration.orchestrate for one issue on a fresh coordination *)
(* file: the analysis, the autoImplement gate, and the loop of SpecRun.    *)
(***************************************************************************)
OrchAnalyze ==
  /\ caller.pc = "idle"
  /\ \E issueNumber \in IssueNumbers, issue \in Issues :
       LET analysis == analyzeIssue(issue)
       IN  /\ ret' = [op |-> "analyzeIssue", issue |-> issue, value |-> analysis]
           /\ caller' = [pc |-> "analyzed", issueNumber |-> issueNumber,
                         issueId |-> Null, analysis |-> analysis,
                         nextAgent |-> Null, executions |-> 0,
                         comment |-> "none"]
  /\ UNCHANGED <<disk, calls, messageFile, db, metrics>>

OrchReview ==
  /\ caller.pc = "analyzed"
  /\ ~ caller.analysis.autoImplement
  /\ caller' = [caller EXCEPT !.pc = "returned", !.comment = "human review"]
  /\ UNCHANGED <<disk, ret, calls, messageFile, db, metrics>>

OrchRegister ==
  /\ caller.pc = "analyzed"
  /\ caller.analysis.autoImplement
  /\ LET r == registerIssue(disk, caller.issueNumber, caller.analysis,
                            caller.analysis.agents)
         g == getNextAgent(r.disk)
     IN  /\ disk' = g.disk
         /\ ret' = [op |-> "getNextAgent", value |-> g.value]
         /\ caller' = [caller EXCEPT !.pc = "loop", !.issueId = r.value,
                                     !.nextAgent = g.value]
  /\ UNCHANGED <<calls, messageFile, db, metrics>>

NextOrchestrate ==
  \/ OrchAnalyze
  \/ OrchReview
  \/ OrchRegister
  \/ RunAcquire
  \/ RunResult
  \/ RunCatch
  \/ RunExit

SpecOrchestrate == InitCommon /\ [][NextOrchestrate]_vars

(***************************************************************************)
(* Specification SpecComm: the queue calls of Spec for one issue number    *)
(* (the lock table plays no part in the messages), and agents that record  *)
(* and read messages about the registered issue.                           *)
(***************************************************************************)
MessageTypes == {"api-ready", "schema-updated"}

CommRegister ==
  \E analysis \in Analyses :
    LET r == registerIssue(disk, 1, analysis.issueData, analysis.agents)
    IN  /\ ~ \E agentType \in Roles : HasEntry(disk, issueIdOf(1), agentType)
        /\ Len(r.disk.agentQueue) <= MaxQueue
        /\ disk' = r.disk
        /\ ret' = [op |-> "registerIssue", issueNumber |-> 1, value |-> r.value]
        /\ Counted

AddAgentCommunication ==
  \E issueId \in DOMAIN disk.activeIssues, message \in MessageTypes :
    /\ disk' = addAgentCommunication(disk, issueId, "backend", "frontend", message, 0)
    /\ ret' = [op |-> "addAgentCommunication", issueId |-> issueId,
               entry |-> [fromAgent |-> "backend", toAgent |-> "frontend",
                          message |-> message, data |-> 0]]
    /\ Counted

GetAgentCommunication ==
  \E issueId \in DOMAIN disk.activeIssues :
    /\ ret' = [op |-> "getAgentCommunication", issueId |-> issueId,
               value |-> getAgentCommunication(disk, issueId)]
    /\ disk' = disk
    /\ Counted

NextComm ==
  \/ CommRegister
  \/ GetNextAgent
  \/ RecordAgentCompletion
  \/ HandleAgentFailure
  \/ AddAgentCommunication
  \/ GetAgentCommunication

SpecComm == InitCommon /\ [][NextComm]_vars

(***************************************************************************)
(* Specification SpecTwo: two coordinator instances on one coordination    *)
(* file, each running registerIssue for its own issue number.  The load of *)
(* the file and the save of the mutated copy are separate steps, and the   *)
(* steps of the two instances interleave freely.                           *)
(***************************************************************************)
Instances == {1, 2}

InstanceAt(p) == IF caller.pc = "idle" THEN [pc |-> "start"] ELSE caller.inst[p]

TwoLoad(p) ==
  /\ InstanceAt(p).pc = "start"
  /\ \E analysis \in Analyses :
       caller' = [pc   |-> "racing",
                  inst |-> [q \in Instances |->
                              IF q = p
                              THEN [pc       |-> "loaded",
                                    analysis |-> analysis,
                                    state    |-> loadCoordinationState(disk)]
                              ELSE InstanceAt(q)]]
  /\ UNCHANGED <<disk, ret, calls, messageFile, db, metrics>>

TwoSave(p) ==
  /\ InstanceAt(p).pc = "loaded"
  /\ LET me == caller.inst[p]
         r == registerIssue(me.state, p, me.analysis.issueData, me.analysis.agents)
     IN  /\ disk' = saveCoordinationState(disk, r.disk)
         /\ ret' = [op |-> "registerIssue", issueNumber |-> p, value |-> r.value]
         /\ caller' = [caller EXCEPT !.inst[p].pc = "saved"]
  /\ UNCHANGED <<calls, messageFile, db, metrics>>

NextTwo == \E p \in Instances : TwoLoad(p) \/ TwoSave(p)

SpecTwo == InitCommon /\ [][NextTwo]_vars

(***************************************************************************)
(* Specification SpecUnknown: the queue calls for issue number 1, and      *)
(* completions and failures reported for an issue id that activeIssues     *)
(* does not hold.                                                          *)
(***************************************************************************)
RecordUnknown ==
  \E issueNumber \in IssueNumbers, agentType \in Roles, success \in BOOLEAN :
    LET issueId == issueIdOf(issueNumber)
        r == recordAgentCompletion(disk, issueId, agentType, success)
    IN  /\ ~ Has(disk.activeIssues, issueId)
        /\ disk' = r.disk
        /\ ret' = [op |-> "recordAgentCompletion", issueId |-> issueId,
                   agentType |-> agentType, success |-> success,
                   thrown |-> r.thrown]
        /\ Counted

HandleUnknown ==
  \E issueNumber \in IssueNumbers, agentType \in Roles, error \in ErrorMessages :
    LET issueId == issueIdOf(issueNumber)
        r == handleAgentFailure(disk, issueId, agentType, error)
    IN  /\ ~ Has(disk.activeIssues, issueId)
        /\ disk' = r.disk
        /\ ret' = [op |-> "handleAgentFailure", issueId |-> issueId,
                   agentType |-> agentType, error |-> error,
                   thrown |-> r.thrown]
        /\ Counted

NextUnknown ==
  \/ CommRegister
  \/ GetNextAgent
  \/ AcquireResourceLocks
  \/ AddAgentCommunication
  \/ RecordUnknown
  \/ HandleUnknown

SpecUnknown == InitCommon /\ [][NextUnknown]_vars

(***************************************************************************)
(* The message log of communication.js (class AgentCommunication).  The    *)
(* variable messageFile is the content of <issueId>-messages.jsonl, one    *)
(* message per line.  Of a message the model keeps id, type, from, to and  *)
(* status; timestamp, data and priority are read by no decision, and the   *)
(* lines of the file are in timestamp order.                               *)
(***************************************************************************)
CommAgents == {"database", "backend", "frontend"}

Recipients == CommAgents \cup {"broadcast"}

CommTypes == {"information", "error"}

(* writeMessage: fs.appendFileSync of one line. *)
writeMessage(file, message) == Append(file, message)

(* sendMessage: id is the fresh id of generateMessageId. *)
sendMessage(file, id, fromAgent, toAgent, messageType) ==
  LET message == [id |-> id, type |-> messageType, from |-> fromAgent,
                  to |-> toAgent, status |-> "sent"]
  IN  [file |-> writeMessage(file, message),
       success |-> TRUE, messageId |-> id, message |-> message]

getAllMessagesForIssue(file) == file

getMessagesForAgent(file, agentType) ==
  SelectSeq(getAllMessagesForIssue(file),
            LAMBDA m : /\ (m.to = agentType \/ m.to = "broadcast")
                       /\ m.status # "read")

(* The map of markMessagesAsRead over the messages it has loaded. *)
markedAsRead(messages, messageIds) ==
  [i \in 1..Len(messages) |->
     IF messages[i].id \in messageIds
       THEN [messages[i] EXCEPT !.status = "read"]
       ELSE messages[i]]

(* markMessagesAsRead without a concurrent writer: the file is loaded,     *)
(* mapped and written back whole.                                          *)
markMessagesAsRead(file, messageIds) ==
  markedAsRead(getAllMessagesForIssue(file), messageIds)

receiveMessages(file, agentType, markAsRead) ==
  LET messages == getMessagesForAgent(file, agentType)
      ids == {messages[i].id : i \in 1..Len(messages)}
  IN  [file |-> IF markAsRead THEN markMessagesAsRead(file, ids) ELSE file,
       success |-> TRUE, messages |-> messages]

(* The number of sendMessage calls of a run; calls counts them. *)
MaxMessages == 2

(* What the agents have been handed so far by a marking receiveMessages:   *)
(* pairs <<agentType, message id>>.                                        *)
Delivered == IF "delivered" \in DOMAIN caller THEN caller.delivered ELSE {}

IdsOf(messages) == {messages[i].id : i \in 1..Len(messages)}

(***************************************************************************)
(* SpecMessages: sendMessage and receiveMessages of one issue, one call at *)
(* a time.                                                                 *)
(***************************************************************************)
SendMessage ==
  \E fromAgent \in CommAgents, toAgent \in Recipients,
     messageType \in CommTypes :
    LET r == sendMessage(messageFile, calls + 1, fromAgent, toAgent,
                         messageType)
    IN  /\ calls < MaxMessages
        /\ fromAgent # toAgent
        /\ calls' = calls + 1
        /\ messageFile' = r.file
        /\ ret' = [op |-> "sendMessage", success |-> r.success,
                   messageId |-> r.messageId]
        /\ UNCHANGED <<disk, caller, db, metrics>>

ReceiveMessages ==
  \E agentType \in CommAgents, markAsRead \in BOOLEAN :
    LET r == receiveMessages(messageFile, agentType, markAsRead)
    IN  /\ messageFile' = r.file
        /\ ret' = [op |-> "receiveMessages", agentType |-> agentType,
                   markAsRead |-> markAsRead, success |-> r.success,
                   messages |-> r.messages]
        /\ caller' = [pc |-> "idle",
                      delivered |->
                        IF markAsRead
                          THEN Delivered \cup
                                 {<<agentType, id>> : id \in IdsOf(r.messages)}
                          ELSE Delivered]
        /\ UNCHANGED <<disk, calls, db, metrics>>

NextMessages == SendMessage \/ ReceiveMessages

SpecMessages == InitCommon /\ [][NextMessages]_vars

(***************************************************************************)
(* SpecOverlap: agents are separate processes on the same message file.    *)
(* sendMessage appends in one synchronous step.  receiveMessages reaches   *)
(* the file three times, with an await between them: the read of           *)
(* getMessagesForAgent, the read of markMessagesAsRead and its             *)
(* fs.writeFileSync.  caller is the receiving process: its position and    *)
(* what it has loaded.                                                     *)
(***************************************************************************)
ReceiveGet ==
  \E agentType \in CommAgents :
    /\ caller.pc = "idle"
    /\ caller' = [pc |-> "got", agentType |-> agentType,
                  messages |-> getMessagesForAgent(messageFile, agentType)]
    /\ UNCHANGED <<disk, ret, calls, messageFile, db, metrics>>

ReceiveLoad ==
  /\ caller.pc = "got"
  /\ caller' = [pc |-> "loaded", agentType |-> caller.agentType,
                messages |-> caller.messages,
                all |-> getAllMessagesForIssue(messageFile)]
  /\ UNCHANGED <<disk, ret, calls, messageFile, db, metrics>>

ReceiveWrite ==
  /\ caller.pc = "loaded"
  /\ messageFile' = markedAsRead(caller.all, IdsOf(caller.messages))
  /\ ret' = [op |-> "receiveMessages", agentType |-> caller.agentType,
             markAsRead |-> TRUE, success |-> TRUE,
             messages |-> caller.messages]
  /\ caller' = [pc |-> "idle"]
  /\ UNCHANGED <<disk, calls, db, metrics>>

NextOverlap == SendMessage \/ ReceiveGet \/ ReceiveLoad \/ ReceiveWrite

SpecOverlap == InitCommon /\ [][NextOverlap]_vars

(***************************************************************************)
(* SpecForeign: orchestration runs on a coordination file that other       *)
(* clients of the coordinator also write: the system test registers issues *)
(* that no run executes (testConcurrentIssues), and their queue entries    *)
(* stay in the file.                                                       *)
(***************************************************************************)
NextForeign ==
  \/ CommRegister
  \/ RunRegister
  \/ RunAcquire
  \/ RunResult
  \/ RunCatch
  \/ RunExit

SpecForeign == InitCommon /\ [][NextForeign]_vars

(***************************************************************************)
(* SpecCredits: the blog-generating routes of the backend, POST /prompts   *)
(* and POST /prompts/:id/regenerate, behind attachUser and                 *)
(* checkSubscriptionLimits.  db is the User document and the number of     *)
(* Blog documents of the user.  Each request is a chain of awaits; two     *)
(* requests of the same user are in flight at most, and caller holds, for  *)
(* each, its position and the req.user it loaded.  calls counts the        *)
(* requests received.                                                      *)
(***************************************************************************)
Requests == {1, 2}

Routes == {"prompts", "regenerate"}

NoRequest == [pc |-> "none"]

RequestAt(p) ==
  IF "requests" \in DOMAIN caller THEN caller.requests[p] ELSE NoRequest

WithRequest(p, request) ==
  [pc |-> "serving",
   requests |-> [q \in Requests |-> IF q = p THEN request ELSE RequestAt(q)]]

(* new Date() >= new Date(user.subscription.resetDate): the requests of    *)
(* the model fall within one reset period.                                 *)
resetDue == FALSE

(* attachUser: User.findOne; req.user is the request's own copy. *)
AttachUser(p) ==
  /\ RequestAt(p).pc \in {"none", "responded"}
  /\ calls < MaxCalls
  /\ calls' = calls + 1
  /\ \E route \in Routes :
       caller' = WithRequest(p, [pc |-> "attached", route |-> route,
                                 user |-> [creditsUsed |-> db.creditsUsed,
                                           creditsLimit |-> db.creditsLimit]])
  /\ UNCHANGED <<disk, ret, messageFile, db, metrics>>

CheckSubscriptionLimits(p) ==
  LET me == RequestAt(p) IN
  /\ me.pc = "attached"
  /\ IF me.user.creditsUsed >= me.user.creditsLimit
       THEN IF resetDue
              THEN /\ db' = [db EXCEPT !.creditsUsed = 0]
                   /\ caller' = WithRequest(p, [me EXCEPT
                                                  !.pc = "checked",
                                                  !.user.creditsUsed = 0])
                   /\ UNCHANGED ret
              ELSE /\ caller' = WithRequest(p, [pc |-> "responded"])
                   /\ ret' = [op |-> "post", request |-> p, status |-> 403]
                   /\ UNCHANGED db
       ELSE /\ caller' = WithRequest(p, [me EXCEPT !.pc = "checked"])
            /\ UNCHANGED <<ret, db>>
  /\ UNCHANGED <<disk, calls, messageFile, metrics>>

(* The handler up to Blog.create: a request that fails validation or       *)
(* names no prompt of the user is answered 400 or 404, one whose           *)
(* generateBlog throws is answered 500, and otherwise the Blog document is *)
(* created.                                                                *)
CreateBlog(p) ==
  LET me == RequestAt(p) IN
  /\ me.pc = "checked"
  /\ \E outcome \in {"invalid", "failed", "created"} :
       IF outcome = "created"
         THEN /\ db' = [db EXCEPT !.blogs = @ + 1]
              /\ caller' = WithRequest(p, [me EXCEPT !.pc = "created"])
              /\ UNCHANGED ret
         ELSE /\ caller' = WithRequest(p, [pc |-> "responded"])
              /\ ret' = [op |-> "post", request |-> p,
                         status |-> IF outcome = "failed" THEN 500
                                    ELSE IF me.route = "prompts" THEN 400
                                    ELSE 404]
              /\ UNCHANGED db
  /\ UNCHANGED <<disk, calls, messageFile, metrics>>

(* req.user.subscription.creditsUsed += 1; await req.user.save(): the save *)
(* sets the stored field to the value of the request's copy.               *)
UpdateCredits(p) ==
  LET me == RequestAt(p) IN
  /\ me.pc = "created"
  /\ db' = [db EXCEPT !.creditsUsed = me.user.creditsUsed + 1]
  /\ caller' = WithRequest(p, [pc |-> "responded"])
  /\ ret' = [op |-> "post", request |-> p,
             status |-> IF me.route = "prompts" THEN 201 ELSE 200]
  /\ UNCHANGED <<disk, calls, messageFile, metrics>>

NextCredits ==
  \E p \in Requests :
    \/ AttachUser(p)
    \/ CheckSubscriptionLimits(p)
    \/ CreateBlog(p)
    \/ UpdateCredits(p)

SpecCredits == InitCommon /\ [][NextCredits]_vars

(***************************************************************************)
(* The counters of AutomationMonitor (monitoring.js, written by            *)
(* scripts/setup.sh).  Every method loads metrics.json, changes the copy   *)
(* and saves it; the methods are synchronous.                              *)
(***************************************************************************)
recordIssueStart(m) ==
  [m EXCEPT !.totalIssuesProcessed = @ + 1]

recordIssueCompletion(m, success, autoImplemented, prCreated) ==
  [m EXCEPT
     !.autoImplemented = IF autoImplemented THEN @ + 1 ELSE @,
     !.manualReview = IF autoImplemented THEN @ ELSE @ + 1,
     !.totalPRsCreated = IF prCreated THEN @ + 1 ELSE @]

recordPRCreation(m, success) ==
  IF success THEN [m EXCEPT !.totalPRsCreated = @ + 1] ELSE m

(***************************************************************************)
(* SpecMonitor: the monitor calls of ClaudeCodeIntegration.orchestrate,    *)
(* one run at a time; calls counts the runs.  caller is the run's position *)
(* and the number of pull requests that createPullRequest has created.     *)
(***************************************************************************)
PullRequests ==
  IF "pullRequests" \in DOMAIN caller THEN caller.pullRequests ELSE 0

MonitorStart ==
  /\ caller.pc \in {"idle", "ended"}
  /\ calls < MaxCalls
  /\ calls' = calls + 1
  /\ metrics' = recordIssueStart(metrics)
  /\ caller' = [pc |-> "started", pullRequests |-> PullRequests]
  /\ UNCHANGED <<disk, ret, messageFile, db>>

(* !analysis.autoImplement: comment and return. *)
MonitorReview ==
  /\ caller.pc = "started"
  /\ metrics' = recordIssueCompletion(metrics, TRUE, FALSE, FALSE)
  /\ caller' = [caller EXCEPT !.pc = "ended"]
  /\ ret' = [op |-> "orchestrate", prCreated |-> FALSE]
  /\ UNCHANGED <<disk, calls, messageFile, db>>

(* The summary after the agent loop: with a successful agent the run calls *)
(* createPullRequest, which creates the pull request or fails.             *)
MonitorSummary ==
  /\ caller.pc = "started"
  /\ \E anySuccessful \in BOOLEAN, created \in BOOLEAN :
       LET prCreated == anySuccessful /\ created
           m1 == IF anySuccessful THEN recordPRCreation(metrics, created)
                 ELSE metrics
       IN  /\ metrics' = recordIssueCompletion(m1, anySuccessful, TRUE,
                                               prCreated)
           /\ caller' = [pc |-> "ended",
                         pullRequests |->
                           IF prCreated THEN PullRequests + 1
                           ELSE PullRequests]
           /\ ret' = [op |-> "orchestrate", prCreated |-> prCreated]
  /\ UNCHANGED <<disk, calls, messageFile, db>>

(* An exception before the summary reaches the outer catch. *)
MonitorCatch ==
  /\ caller.pc = "started"
  /\ metrics' = recordIssueCompletion(metrics, FALSE, FALSE, FALSE)
  /\ caller' = [caller EXCEPT !.pc = "ended"]
  /\ ret' = [op |-> "orchestrate", prCreated |-> FALSE]
  /\ UNCHANGED <<disk, calls, messageFile, db>>

NextMonitor == MonitorStart \/ MonitorReview \/ MonitorSummary \/ MonitorCatch

SpecMonitor == InitCommon /\ [][NextMonitor]_vars

(***************************************************************************)
(* Properties.                                                             *)
(***************************************************************************)
QueueEntries(d, issueId) ==
  SelectSeq(d.agentQueue, LAMBDA item : item.issueId = issueId)

PairEntries(d, issueId, agentType) ==
  SelectSeq(d.agentQueue,
            LAMBDA item : item.issueId = issueId /\ item.agentType = agentType)

IsNonRetryable(error) ==
  \E phrase \in nonRetryableErrors :
    includes([i \in 1..Len(error) |-> toLowerCase(error[i])], phrase)

Drained(mode) ==
  caller.pc # "idle" /\ caller.mode = mode =>
    /\ caller.pc # "gotNull"
    /\ caller.agent # Null => caller.agent.issueId = caller.issueId
    /\ caller.pc = "done" =>
         /\ QueueEntries(disk, caller.issueId) = <<>>
         /\ disk.activeIssues[caller.issueId].status = "completed"

C2_OrderIsDependencyPermutation ==
  ret.op = "determineAgentOrder" =>
    LET S == Range(ret.requiredAgents)
        v == ret.value
    IN  /\ Range(v) = S
        /\ Len(v) = Cardinality(S)
        /\ \A i, j \in 1..Len(v) : v[j] \in getAgentDependencies(v[i]) => j < i

(* C3: no required role of an issue is executing while a required role that *)
(* stands earlier in the chain database, backend, frontend,                 *)
(* devops/documentation is still queued and was never started.              *)
chainRank(agentType) ==
  CASE agentType = "database" -> 1
    [] agentType = "backend"  -> 2
    [] agentType = "frontend" -> 3
    [] OTHER                  -> 4

C3_ChainOrder ==
  \A issueId \in DOMAIN disk.activeIssues :
    LET issue == disk.activeIssues[issueId]
        required == Range(issue.requiredAgents)
    IN  \A later \in required, earlier \in required :
          /\ chainRank(earlier) < chainRank(later)
          /\ IsExecuting(disk, issueId, later)
          => ~ (/\ HasEntry(disk, issueId, earlier)
                /\ ~ IsExecuting(disk, issueId, earlier)
                /\ issue.agentProgress[earlier].status = "none")

(* C4: after recordAgentCompletion has returned, no resource of the role is *)
(* locked for the issue's number.                                           *)
C4_LocksReleasedOnCompletion ==
  ret.op = "recordAgentCompletion" =>
    \A resource \in getAgentResources(ret.agentType) :
      ~ (/\ Has(disk.resourceLocks, resource)
         /\ disk.resourceLocks[resource] = disk.activeIssues[ret.issueId].issueNumber)

(* C5: when the orchestration loop has ended, the issue it registered is    *)
(* completed.                                                               *)
C5_RunEndsCompleted ==
  caller.pc = "done" => disk.activeIssues[caller.issueId].status = "completed"

RecordedFailed(d, issueId, agentType) ==
  /\ agentType \in Range(d.activeIssues[issueId].failedAgents)
  /\ d.activeIssues[issueId].agentProgress[agentType].status = "failed"
  /\ PairEntries(d, issueId, agentType) = <<>>

(* C6: handleAgentFailure with a non-retryable error returns false and      *)
(* leaves the role recorded as failed and out of the queue.                 *)
C6_NonRetryableRecordedFailed ==
  ret.op = "handleAgentFailure" /\ IsNonRetryable(ret.error) =>
    /\ ret.value = FALSE
    /\ RecordedFailed(disk, ret.issueId, ret.agentType)

(* The retries of a role so far: its queue entries that carry a retry       *)
(* attempt.                                                                 *)
RetriesSoFar(d, issueId, agentType) ==
  Len(SelectSeq(PairEntries(d, issueId, agentType),
                LAMBDA item : item.retryAttempt > 0))

(* C7: handleAgentFailure with a retryable error for a role that was        *)
(* retried maxRetries times returns false, records the role as failed and   *)
(* does not queue it again.                                                 *)
C7_RetryBound ==
  [][/\ calls' # calls
     /\ ret'.op = "handleAgentFailure"
     /\ ~ IsNonRetryable(ret'.error)
     /\ RetriesSoFar(disk, ret'.issueId, ret'.agentType) >= maxRetries(ret'.agentType)
     => /\ ret'.value = FALSE
        /\ RecordedFailed(disk', ret'.issueId, ret'.agentType)]_vars

FailedAttempt(d, issueId, agentType) ==
  LET executing == SelectSeq(PairEntries(d, issueId, agentType),
                             LAMBDA item : item.status = "executing")
  IN  IF executing = <<>> THEN 0 ELSE executing[Len(executing)].retryAttempt

(* C8: when handleAgentFailure returns true, the queue holds a queued entry *)
(* of the role whose retryAttempt is one above that of the failed attempt,  *)
(* and getAgentCommunication returns the retry message.                     *)
C8_RetryRequeuedAndLogged ==
  [][/\ calls' # calls
     /\ ret'.op = "handleAgentFailure"
     /\ ret'.value = TRUE
     => /\ \E i \in 1..Len(disk'.agentQueue) :
             /\ disk'.agentQueue[i].issueId = ret'.issueId
             /\ disk'.agentQueue[i].agentType = ret'.agentType
             /\ disk'.agentQueue[i].status = "queued"
             /\ disk'.agentQueue[i].retryAttempt =
                  FailedAttempt(disk, ret'.issueId, ret'.agentType) + 1
        /\ \E m \in Range(getAgentCommunication(disk', ret'.issueId)) :
             /\ m.message = "Agent queued for retry"
             /\ m.toAgent = ret'.agentType]_vars

(* C9: at most one queue entry of a pair (issueId, agentType) is executing. *)
C9_OneExecutingPerPair ==
  \A i, j \in 1..Len(disk.agentQueue) :
    /\ disk.agentQueue[i].status = "executing"
    /\ disk.agentQueue[j].status = "executing"
    /\ disk.agentQueue[i].issueId = disk.agentQueue[j].issueId
    /\ disk.agentQueue[i].agentType = disk.agentQueue[j].agentType
    => i = j

(* C10: no call takes an issue from 'completed' back to 'registered',       *)
(* neither from the state before the call to the state after it nor in the  *)
(* successive contents the call writes to the file, and a completed issue   *)
(* has no queue entry.                                                      *)
C10_StatusMonotonic ==
  [][calls' # calls =>
       /\ \A issueId \in DOMAIN disk.activeIssues :
            disk.activeIssues[issueId].status = "completed" =>
              /\ issueId \in DOMAIN disk'.activeIssues
              /\ disk'.activeIssues[issueId].status = "completed"
       /\ ret'.op \in {"recordAgentCompletion", "handleAgentFailure"} =>
            \A k, m \in 1..Len(ret'.statuses) :
              k < m /\ ret'.statuses[k] = "completed" => ret'.statuses[m] = "completed"
       /\ \A issueId \in DOMAIN disk'.activeIssues :
            disk'.activeIssues[issueId].status = "completed" =>
              QueueEntries(disk', issueId) = <<>>]_vars

(* Every element of s occurs in s exactly once, and s holds exactly the     *)
(* elements of t.                                                           *)
HoldsEachOnce(s, t) == NoDup(s) /\ Range(s) = Range(t)

(* C11: requiredAgents of a registered issue never changes, and a run in    *)
(* which every role succeeds on its first attempt ends with the issue       *)
(* 'completed', completedAgents holding each role of requiredAgents exactly *)
(* once and no other role, and failedAgents empty.                          *)
C11_HappyRunCoversRequired ==
  [][/\ \A issueId \in DOMAIN disk.activeIssues :
          /\ issueId \in DOMAIN disk'.activeIssues
          /\ disk'.activeIssues[issueId].requiredAgents =
               disk.activeIssues[issueId].requiredAgents
     /\ caller'.pc = "done" /\ caller'.mode = "chain" =>
          LET issue == disk'.activeIssues[caller'.issueId]
          IN  /\ issue.status = "completed"
              /\ HoldsEachOnce(issue.completedAgents, issue.requiredAgents)
              /\ issue.failedAgents = <<>>]_vars

(* The messages a call records for an issue through addAgentCommunication:  *)
(* the caller's message, or the retry notice of handleAgentFailure.         *)
Recorded(r, issueId) ==
  IF r.op = "addAgentCommunication" /\ r.issueId = issueId THEN <<r.entry>>
  ELSE IF r.op = "handleAgentFailure" /\ r.issueId = issueId /\ r.value = TRUE
       THEN <<[fromAgent |-> "coordinator", toAgent |-> r.agentType,
               message |-> "Agent queued for retry",
               data |-> FailedAttempt(disk, issueId, r.agentType) + 1]>>
       ELSE <<>>

(* C12: every call leaves getAgentCommunication(issueId) equal to what it   *)
(* was before the call followed by the messages the call recorded for the   *)
(* issue, so that after K addAgentCommunication calls the list holds those  *)
(* K messages in call order, and getAgentCommunication returns that list.   *)
C12_MessagesAppendOnly ==
  [][calls' # calls =>
       /\ \A issueId \in DOMAIN disk.activeIssues :
            LET before == getAgentCommunication(disk, issueId)
                after == getAgentCommunication(disk', issueId)
                new == Recorded(ret', issueId)
            IN  /\ Len(after) = Len(before) + Len(new)
                /\ SubSeq(after, 1, Len(before)) = before
                /\ new # <<>> => after[Len(after)].message = new[1].message
       /\ ret'.op = "getAgentCommunication" =>
            ret'.value = getAgentCommunication(disk, ret'.issueId)]_vars

(* The lower-cased title, body and label names of an analysed issue. *)
TitleOf(r) == lowerCased(r.issue.issueTitle)

BodyOf(r) == lowerCased(r.issue.issueBody)

LabelsOf(r) == {lowerCased(name) : name \in r.issue.issueLabels}

Mentions(r, keywords) ==
  \E keyword \in keywords : includes(TitleOf(r), keyword) \/ includes(BodyOf(r), keyword)

TitleMentions(r, keywords) ==
  \E keyword \in keywords : includes(TitleOf(r), keyword)

(* C13: orchestrate registers the issue and executes agents only when       *)
(* autoImplement is true, autoImplement is true exactly when risk is low    *)
(* and complexity is simple or moderate, and an issue classified complex or *)
(* of medium or high risk has no agent executed, is not registered, and     *)
(* gets the human-review comment.                                           *)
C13_OnlyAutoImplementRuns ==
  caller.pc # "idle" =>
    LET analysis == caller.analysis
    IN  /\ analysis.autoImplement <=>
             /\ analysis.risk = "low"
             /\ analysis.complexity \in {"simple", "moderate"}
        /\ caller.executions > 0 \/ disk # initialState => analysis.autoImplement
        /\ analysis.complexity = "complex" \/ analysis.risk \in {"medium", "high"} =>
             /\ caller.executions = 0
             /\ disk = initialState
             /\ caller.pc \in {"analyzed", "returned"}
             /\ caller.pc = "returned" => caller.comment = "human review"

C13_ComplexIssueReviewed ==
  /\ caller.pc = "returned"
  /\ caller.analysis.complexity = "complex"
  /\ caller.analysis.risk = "low"
  /\ caller.comment = "human review"
  /\ disk = initialState

(* The high-risk keywords named by the specification. *)
SpecHighRiskKeywords ==
  {<<"b", "r", "e", "a", "k", "i", "n", "g">>,
   <<"m", "i", "g", "r", "a", "t", "i", "o", "n">>,
   <<"s", "e", "c", "u", "r", "i", "t", "y">>,
   <<"a", "u", "t", "h", "e", "n", "t", "i", "c", "a", "t", "i", "o", "n">>,
   <<"d", "a", "t", "a", "b", "a", "s", "e">>,
   <<"p", "a", "y", "m", "e", "n", "t">>}

(* C14: an issue whose title or body contains one of the keywords breaking, *)
(* migration, security, authentication, database, payment is classified     *)
(* risk = high, whatever low-risk keyword it contains as well, and is not   *)
(* auto-implemented.                                                        *)
C14_HighRiskKeywordMeansHigh ==
  ret.op = "analyzeIssue" /\ Mentions(ret, SpecHighRiskKeywords) =>
    /\ ret.value.risk = "high"
    /\ ~ ret.value.autoImplement

C16_PlainFeatureAutoImplemented ==
  /\ ret.op = "analyzeIssue"
  /\ LabelsOf(ret) \cap {<<"f", "e", "a", "t", "u", "r", "e">>,
                         <<"e", "n", "h", "a", "n", "c", "e", "m", "e", "n", "t">>} # {}
  /\ ~ Mentions(ret, complexKeywords)
  /\ ~ Mentions(ret, SpecHighRiskKeywords)
  => /\ ret.value.autoImplement
     /\ ret.value.agents # <<>>

(* C17: when the classifier puts 'database' into the required agents, no    *)
(* agent is executed for the issue.                                         *)
C17_DatabaseNeverAutoRuns ==
  caller.pc # "idle" /\ "database" \in Range(caller.analysis.agents) =>
    caller.executions = 0

ExecutingRoles(d, issueId) ==
  {agentType \in Roles : IsExecuting(d, issueId, agentType)}

(* C18: two different roles of one issue that are both marked executing     *)
(* share no resource name.                                                  *)
C18_ExecutingRolesShareNoResource ==
  \A issueId \in DOMAIN disk.activeIssues :
    \A a, b \in ExecutingRoles(disk, issueId) :
      a # b => getAgentResources(a) \cap getAgentResources(b) = {}

C18_TwoRolesExecuting ==
  \E issueId \in DOMAIN disk.activeIssues :
    /\ Cardinality(ExecutingRoles(disk, issueId)) >= 2
    /\ ret.op = "getNextAgent"

(* C19: queue entries of two different issues for one role are never both   *)
(* executing.                                                               *)
C19_RoleSerializedAcrossIssues ==
  \A i, j \in 1..Len(disk.agentQueue) :
    /\ disk.agentQueue[i].status = "executing"
    /\ disk.agentQueue[j].status = "executing"
    /\ disk.agentQueue[i].agentType = disk.agentQueue[j].agentType
    => disk.agentQueue[i].issueId = disk.agentQueue[j].issueId

(* The role a call handed out: the value of getNextAgent, or the nextAgent  *)
(* of recordAgentCompletion.                                                *)
HandedOut(r) ==
  IF r.op = "getNextAgent" THEN r.value
  ELSE IF r.op = "recordAgentCompletion" THEN r.nextAgent
  ELSE Null

LockedForOther(d, agentType, issueNumber) ==
  \E resource \in getAgentResources(agentType) :
    /\ Has(d.resourceLocks, resource)
    /\ d.resourceLocks[resource] # issueNumber

(* C19, amended: while a resource of a role is locked for an issue, no call *)
(* of getNextAgent, nor the getNextAgent inside recordAgentCompletion,      *)
(* hands out that role for another issue.                                   *)
C19_LockedRoleNotHandedOut ==
  [][calls' # calls /\ HandedOut(ret') # Null =>
       ~ LockedForOther(disk, HandedOut(ret').agentType,
                        HandedOut(ret').issueNumber)]_vars

C19_LockedRolePassedOver ==
  /\ ret.op = "getNextAgent"
  /\ \E i \in 1..Len(disk.agentQueue) :
       LET item == disk.agentQueue[i]
           issue == disk.activeIssues[item.issueId]
       IN  /\ item.status = "queued"
           /\ LockedForOther(disk, item.agentType, issue.issueNumber)
           /\ \A dep \in getAgentDependencies(item.agentType) :
                dep \notin Range(issue.requiredAgents)
           /\ \E j \in 1..Len(disk.agentQueue) :
                /\ disk.agentQueue[j].status = "executing"
                /\ disk.agentQueue[j].agentType = item.agentType
                /\ disk.agentQueue[j].issueId # item.issueId

BothSaved ==
  caller.pc = "racing" /\ \A p \in Instances : caller.inst[p].pc = "saved"

(* C20: when both instances have saved and the last writer had loaded the   *)
(* file before the other instance saved, the file holds the last writer's   *)
(* issue only: the other issue's record and queue entries are gone; when    *)
(* the last writer loaded after the other's save, both issues are there.    *)
C20_LastWriteWins ==
  BothSaved =>
    \A p, q \in Instances :
      p # q /\ ret.issueNumber = p =>
        /\ Has(disk.activeIssues, issueIdOf(p))
        /\ QueueEntries(disk, issueIdOf(p)) # <<>>
        /\ IF Has(caller.inst[p].state.activeIssues, issueIdOf(q))
           THEN /\ Has(disk.activeIssues, issueIdOf(q))
                /\ QueueEntries(disk, issueIdOf(q)) # <<>>
           ELSE /\ ~ Has(disk.activeIssues, issueIdOf(q))
                /\ QueueEntries(disk, issueIdOf(q)) = <<>>

C20_UpdateLost ==
  /\ BothSaved
  /\ ret.issueNumber = 2
  /\ ~ Has(disk.activeIssues, issueIdOf(1))
  /\ QueueEntries(disk, issueIdOf(1)) = <<>>
  /\ Has(disk.activeIssues, issueIdOf(2))

(* C21: recordAgentCompletion and handleAgentFailure called with an issue   *)
(* id that activeIssues does not hold throw and leave the file as it was.   *)
C21_UnknownIssueThrows ==
  [][/\ calls' # calls
     /\ ret'.op \in {"recordAgentCompletion", "handleAgentFailure"}
     /\ ~ Has(disk.activeIssues, ret'.issueId)
     => /\ ret'.thrown
        /\ disk' = disk]_vars

C21_ThrownOnNonEmptyState ==
  /\ ret.op = "handleAgentFailure"
  /\ ~ Has(disk.activeIssues, ret.issueId)
  /\ ret.thrown
  /\ disk.agentQueue # <<>>
  /\ disk.resourceLocks # EmptyMap
  /\ disk.agentCommunication # EmptyMap


(* C22: every stored message is handed once to each agent it is addressed  *)
(* to.  A marking receiveMessages(Y) returns exactly the messages of the   *)
(* file addressed to Y, or sent to 'broadcast' by another agent, that Y    *)
(* has not been handed yet.                                                *)
C22_DeliveredOncePerAddressee ==
  [][/\ ret'.op = "receiveMessages"
     /\ ret'.markAsRead
     => \A i \in 1..Len(messageFile) :
          LET m == messageFile[i] IN
          (m.to = ret'.agentType
             \/ (m.to = "broadcast" /\ m.from # ret'.agentType))
            => (m.id \in IdsOf(ret'.messages)
                  <=> <<ret'.agentType, m.id>> \notin Delivered)]_vars

(* C23: the message log only grows: every message of the file is still in  *)
(* the file after any step.                                                *)
C23_LogAppendOnly ==
  [][IdsOf(messageFile) \subseteq IdsOf(messageFile')]_vars


(* C24: getNextAgent marks the first queue entry that is queued, whose     *)
(* dependencies among the issue's requiredAgents are all in the issue's    *)
(* completedAgents and none of whose resources is locked by another issue, *)
(* and returns it; if there is no such entry it returns null and the file  *)
(* stays as it was.                                                        *)
Qualifies(d, i) ==
  LET item == d.agentQueue[i] IN
  /\ item.status = "queued"
  /\ Has(d.activeIssues, item.issueId)
  /\ LET issue == d.activeIssues[item.issueId] IN
     /\ \A dep \in getAgentDependencies(item.agentType) :
          dep \in Range(issue.requiredAgents)
            => dep \in Range(issue.completedAgents)
     /\ \A resource \in getAgentResources(item.agentType) :
          Has(d.resourceLocks, resource)
            => d.resourceLocks[resource] = issue.issueNumber

Qualifying(d) == {i \in 1..Len(d.agentQueue) : Qualifies(d, i)}

C24_FirstQualifyingEntryRuns ==
  [][/\ calls' # calls
     /\ ret'.op = "getNextAgent"
     => IF Qualifying(disk) = {}
          THEN ret'.value = Null /\ disk' = disk
          ELSE LET i == CHOOSE k \in Qualifying(disk) :
                          \A j \in Qualifying(disk) : k <= j
               IN  /\ ret'.value # Null
                   /\ ret'.value.issueId = disk.agentQueue[i].issueId
                   /\ ret'.value.agentType = disk.agentQueue[i].agentType
                   /\ Len(disk'.agentQueue) = Len(disk.agentQueue)
                   /\ disk'.agentQueue[i].status = "executing"
                   /\ \A j \in 1..Len(disk.agentQueue) :
                        j # i => disk'.agentQueue[j] = disk.agentQueue[j]]_vars

(* getNextAgent has passed over a queued entry whose dependency is not     *)
(* completed and one whose resource is locked by the other issue, and has  *)
(* returned a later entry.                                                 *)
C24_LaterEntryPicked ==
  /\ ret.op = "getNextAgent"
  /\ ret.value # Null
  /\ \E i, j, k \in 1..Len(disk.agentQueue) :
       /\ i < k /\ j < k
       /\ disk.agentQueue[k].status = "executing"
       /\ disk.agentQueue[k].issueId = ret.value.issueId
       /\ disk.agentQueue[k].agentType = ret.value.agentType
       /\ disk.agentQueue[i].status = "queued"
       /\ disk.agentQueue[j].status = "queued"
       /\ Has(disk.activeIssues, disk.agentQueue[i].issueId)
       /\ Has(disk.activeIssues, disk.agentQueue[j].issueId)
       /\ \E dep \in getAgentDependencies(disk.agentQueue[i].agentType) :
            /\ dep \in Range(disk.activeIssues[disk.agentQueue[i].issueId].requiredAgents)
            /\ dep \notin Range(disk.activeIssues[disk.agentQueue[i].issueId].completedAgents)
       /\ \E resource \in getAgentResources(disk.agentQueue[j].agentType) :
            /\ Has(disk.resourceLocks, resource)
            /\ disk.resourceLocks[resource] #
                 disk.activeIssues[disk.agentQueue[j].issueId].issueNumber


(* C25: a role is executed at most 1 + maxRetries[role] times by one run.  *)
(* When the run's issue is the only issue of the file and its queue was    *)
(* built from one role, every execution the run has started is an          *)
(* execution of that role.                                                 *)
C25_ExecutionsBounded ==
  /\ caller.pc \in {"loop", "execute", "done"}
  /\ DOMAIN disk.activeIssues = {caller.issueId}
  => LET issue == disk.activeIssues[caller.issueId]
         order == determineAgentOrder(issue.requiredAgents, issue.issueData)
     IN  Len(order) = 1 => caller.executions <= 1 + maxRetries(order[1])


(* C26: a finished issue does not block another issue.  The role of issue  *)
(* number n that held the resources of agentType is finished when issue n  *)
(* has recorded it completed or failed.                                    *)
HolderFinished(d, n, agentType) ==
  /\ Has(d.activeIssues, issueIdOf(n))
  /\ agentType \in Range(d.activeIssues[issueIdOf(n)].completedAgents)
                     \cup Range(d.activeIssues[issueIdOf(n)].failedAgents)

(* Entry i is queued, its dependencies are satisfied, and every lock that  *)
(* stands in its way belongs to an issue whose holding role is finished.   *)
BlockedByFinished(d, i) ==
  LET item == d.agentQueue[i]
      held == {resource \in getAgentResources(item.agentType) :
                 /\ Has(d.resourceLocks, resource)
                 /\ d.resourceLocks[resource] #
                      d.activeIssues[item.issueId].issueNumber}
  IN  /\ item.status = "queued"
      /\ Has(d.activeIssues, item.issueId)
      /\ \A dep \in getAgentDependencies(item.agentType) :
           dep \in Range(d.activeIssues[item.issueId].requiredAgents)
             => dep \in Range(d.activeIssues[item.issueId].completedAgents)
      /\ held # {}
      /\ \A resource \in held :
           HolderFinished(d, d.resourceLocks[resource], item.agentType)

(* A getNextAgent call that finds such an entry does not return null. *)
C26_FinishedIssueDoesNotBlock ==
  ret.op = "getNextAgent" /\ ret.value = Null
    => ~ \E i \in 1..Len(disk.agentQueue) : BlockedByFinished(disk, i)


(* C27: the descriptor an orchestration run is about to execute, or is     *)
(* executing, belongs to the issue the run registered.                     *)
C27_RunExecutesOwnIssue ==
  /\ caller.pc \in {"loop", "execute"}
  /\ caller.nextAgent # Null
  => caller.nextAgent.issueId = caller.issueId


(* C28: the local classifier and the automation's classifier return the    *)
(* same analysis of every issue.                                           *)
C28_LocalPredictsAutomation ==
  ret.op = "analyze" => ret.local = ret.automation


(* C29: within one reset period the user never has more generated blogs    *)
(* than creditsLimit.                                                      *)
C29_BlogsWithinLimit == db.blogs <= db.creditsLimit


(* C30: system.totalPRsCreated is the number of pull requests created.     *)
C30_MetricCountsPullRequests == metrics.totalPRsCreated = PullRequests

=============================================================================
